---- MODULE Spec2Model ----
(***************************************************************************)
(* Model of Exchange_Rates (src/main.go): the driver loop of main, the     *)
(* per-day fold analyzeData and the final print loop.  src/main.go holds   *)
(* two variants of the program; the line numbers below are those of the    *)
(* second (lines 161-305), whose analyzeData and main loop are those of    *)
(* the first (lines 90-159) but for the layout passed to Format.           *)
(*                                                                         *)
(* A rate text is a sequence of one-character strings.  A float64 is a     *)
(* record [k, n, den]: k = "fin" for the finite number n/den (in lowest    *)
(* terms, den > 0), k = "nan" for NaN, k = "inf" for +Inf (n = 1) and      *)
(* -Inf (n = -1).  Finite arithmetic is exact: the rounding of float64 is  *)
(* not modelled.                                                           *)
(***************************************************************************)
EXTENDS Integers, Sequences, FiniteSets, TLC

\* ------------------------------------------------------------------ bounds
FeedDays == 2      \* the feed answers only for the last FeedDays requested days
MaxRecords == 3    \* most Valute elements in all documents of one run
MaxLag == 0        \* most days a document's Date lies before the requested day
TicksPerDay == 2   \* clock ticks in one calendar day
MaxRunTicks == 1   \* most clock ticks that pass during one run

\* --------------------------------------------------------- program constant
WindowDays == 90

\* ------------------------------------------------------------ float64 values
Abs(i) == IF i < 0 THEN -i ELSE i

RECURSIVE GCD(_, _)
GCD(a, b) == IF b = 0 THEN a ELSE GCD(b, a % b)

Fin(n, den) ==
    LET g == GCD(Abs(n), den)
    IN  [k |-> "fin", n |-> n \div g, den |-> den \div g]

NaN == [k |-> "nan", n |-> 0, den |-> 1]
Inf(sign) == [k |-> "inf", n |-> sign, den |-> 1]
Zero == Fin(0, 1)

\* a + b
FAdd(a, b) ==
    IF a.k = "nan" \/ b.k = "nan" THEN NaN
    ELSE IF a.k = "inf" /\ b.k = "inf" THEN (IF a.n = b.n THEN a ELSE NaN)
    ELSE IF a.k = "inf" THEN a
    ELSE IF b.k = "inf" THEN b
    ELSE Fin(a.n * b.den + b.n * a.den, a.den * b.den)

\* a < b; false when either side is NaN
FLess(a, b) ==
    IF a.k = "nan" \/ b.k = "nan" THEN FALSE
    ELSE IF a.k = "inf" THEN a.n = -1 /\ ~(b.k = "inf" /\ b.n = -1)
    ELSE IF b.k = "inf" THEN b.n = 1
    ELSE a.n * b.den < b.n * a.den

\* a > b
FGreater(a, b) == FLess(b, a)

\* a <= b; false when either side is NaN
FLeq(a, b) ==
    IF a.k = "nan" \/ b.k = "nan" THEN FALSE
    ELSE ~FLess(b, a)

\* a / float64(count)
FDiv(a, count) ==
    IF a.k = "nan" THEN NaN
    ELSE IF count = 0
         THEN (IF a.k = "inf" THEN a
               ELSE IF a.n = 0 THEN NaN
               ELSE Inf(IF a.n > 0 THEN 1 ELSE -1))
    ELSE IF a.k = "inf" THEN a
    ELSE Fin(a.n, a.den * count)

\* ------------------------------------------------------------ text handling
Digits == {"0", "1", "2", "3", "4", "5", "6", "7", "8", "9"}

DigitVal(c) ==
    CASE c = "0" -> 0 [] c = "1" -> 1 [] c = "2" -> 2 [] c = "3" -> 3
      [] c = "4" -> 4 [] c = "5" -> 5 [] c = "6" -> 6 [] c = "7" -> 7
      [] c = "8" -> 8 [] c = "9" -> 9

\* strings.Replace(s, ",", ".", -1): every comma becomes a period
ReplaceComma(s) == [i \in 1..Len(s) |-> IF s[i] = "," THEN "." ELSE s[i]]

LowerChar(c) ==
    CASE c = "N" -> "n" [] c = "A" -> "a" [] c = "I" -> "i" [] c = "F" -> "f"
      [] c = "T" -> "t" [] c = "Y" -> "y" [] OTHER -> c

Lower(s) == [i \in 1..Len(s) |-> LowerChar(s[i])]

Tail1(s) == SubSeq(s, 2, Len(s))

RECURSIVE DigitsValue(_, _)
DigitsValue(s, acc) ==
    IF s = <<>> THEN acc ELSE DigitsValue(Tail1(s), 10 * acc + DigitVal(s[1]))

RECURSIVE Pow10(_)
Pow10(e) == IF e = 0 THEN 1 ELSE 10 * Pow10(e - 1)

ParseError == [ok |-> FALSE, value |-> Zero]
ParseOk(v) == [ok |-> TRUE, value |-> v]

\* the decimal mantissa  digits [ "." digits ]  with at least one digit
ParseDecimal(sign, s) ==
    LET dots == {i \in 1..Len(s) : s[i] = "."}
        rest == {i \in 1..Len(s) : s[i] \notin Digits /\ s[i] # "."}
    IN  IF rest # {} \/ Cardinality(dots) > 1 \/ Len(s) = Cardinality(dots)
        THEN ParseError
        ELSE LET dot  == IF dots = {} THEN Len(s) + 1 ELSE CHOOSE i \in dots : TRUE
                 ip   == SubSeq(s, 1, dot - 1)
                 fp   == SubSeq(s, dot + 1, Len(s))
             IN  ParseOk(Fin(sign * DigitsValue(ip \o fp, 0), Pow10(Len(fp))))

\* strconv.ParseFloat(s, 64) on texts without exponent, base prefix or
\* underscore: "NaN", a signed or unsigned "Inf"/"Infinity" (any case), or a
\* signed or unsigned decimal; err # nil is ok = FALSE
ParseFloat(s) ==
    IF s = <<>> THEN ParseError
    ELSE LET signed == s[1] \in {"+", "-"}
             sign   == IF s[1] = "-" THEN -1 ELSE 1
             body   == IF signed THEN Tail1(s) ELSE s
         IN  IF Lower(body) \in {<<"i", "n", "f">>,
                                  <<"i", "n", "f", "i", "n", "i", "t", "y">>}
             THEN ParseOk(Inf(sign))
             ELSE IF ~signed /\ Lower(s) = <<"n", "a", "n">>
             THEN ParseOk(NaN)
             ELSE ParseDecimal(sign, body)

\* lines 243-244: the value of a Valute, or the conversion error
ValueOf(valute) == ParseFloat(ReplaceComma(valute.Value))

\* --------------------------------------------------------------- the inputs
Codes == {"USD", "EUR"}

NameOf(c) == IF c = "USD" THEN "US Dollar" ELSE "Euro"

Texts == { <<"1">>, <<"2", ",", "5">>, <<"x">>, <<"N", "a", "N">> }

MkValute(c, t) == [CharCode |-> c, Name |-> NameOf(c), Value |-> t]

Valutes == {MkValute("USD", t) : t \in Texts} \cup {MkValute("EUR", <<"1">>)}

SeqsUpTo(S, n) == UNION {[1..m -> S] : m \in 0..n}

\* the documents parseXML can return for the requested day: at most room
\* Valute elements, dated the requested day or up to MaxLag days before it
ValCursSet(valutes, day, room) ==
    {[Date |-> day - lag, Valutes |-> vs] : lag \in 0..MaxLag, vs \in SeqsUpTo(valutes, room)}

\* ------------------------------------------------------------- analyzeData
EmptyStats == [c \in {} |-> 0]

Put(table, key, stats) ==
    [c \in DOMAIN table \cup {key} |-> IF c = key THEN stats ELSE table[c]]

\* line 250: the map key of a Valute
KeyOfConst(valute) == "USD"
KeyOf(valute) == valute.CharCode

\* lines 251-259: the aggregate of a first observation
NewStatsNoCount(valute, value, date) ==
    [MaxValue |-> value, MinValue |-> value, MaxDate |-> date, MinDate |-> date,
     TotalValue |-> value, Count |-> 0, Average |-> Zero,
     CurrencyName |-> valute.Name]
NewStats(valute, value, date) ==
    [MaxValue |-> value, MinValue |-> value, MaxDate |-> date, MinDate |-> date,
     TotalValue |-> value, Count |-> 1, Average |-> Zero,
     CurrencyName |-> valute.Name]

\* lines 261-270: folding a further observation
UpdateMax(stats, value, date) ==
    IF FGreater(value, stats.MaxValue)
    THEN [stats EXCEPT !.MaxValue = value, !.MaxDate = date]
    ELSE stats

UpdateMin(stats, value, date) ==
    IF FLess(value, stats.MinValue)
    THEN [stats EXCEPT !.MinValue = value, !.MinDate = date]
    ELSE stats

UpdateStatsTies(stats, value, date) ==
    LET s1 == [stats EXCEPT !.TotalValue = FAdd(@, value), !.Count = @ + 1]
        s2 == IF ~FLess(value, s1.MaxValue)
              THEN [s1 EXCEPT !.MaxValue = value, !.MaxDate = date] ELSE s1
    IN  IF ~FGreater(value, s2.MinValue)
        THEN [s2 EXCEPT !.MinValue = value, !.MinDate = date] ELSE s2
UpdateStatsNoSum(stats, value, date) ==
    LET s1 == [stats EXCEPT !.Count = @ + 1]
    IN  UpdateMin(UpdateMax(s1, value, date), value, date)
UpdateStats(stats, value, date) ==
    LET s1 == [stats EXCEPT !.TotalValue = FAdd(@, value), !.Count = @ + 1]
    IN  UpdateMin(UpdateMax(s1, value, date), value, date)

\* lines 243-271: the loop body for one Valute of a document dated date
FoldValute(table, valute, date) ==
    LET r == ValueOf(valute)
        key == KeyOf(valute)
    IN  IF ~r.ok THEN table
        ELSE IF key \notin DOMAIN table
             THEN Put(table, key, NewStats(valute, r.value, date))
             ELSE Put(table, key, UpdateStats(table[key], r.value, date))

\* lines 241-273: the loop over valCurs.Valutes, from element i on
RECURSIVE AnalyzeFromBreak(_, _, _)
AnalyzeFromBreak(table, valCurs, i) ==
    IF i > Len(valCurs.Valutes) THEN table
    ELSE IF ~ValueOf(valCurs.Valutes[i]).ok THEN table
    ELSE AnalyzeFromBreak(FoldValute(table, valCurs.Valutes[i], valCurs.Date),
                          valCurs, i + 1)
RECURSIVE AnalyzeFrom(_, _, _)
AnalyzeFrom(table, valCurs, i) ==
    IF i > Len(valCurs.Valutes) THEN table
    ELSE AnalyzeFrom(FoldValute(table, valCurs.Valutes[i], valCurs.Date),
                     valCurs, i + 1)

analyzeDataBreak(table, valCurs) == AnalyzeFromBreak(table, valCurs, 1)
analyzeData(table, valCurs) == AnalyzeFrom(table, valCurs, 1)

\* ------------------------------------------------------------------- main
VARIABLES
    startDate,    \* main's startDate, in clock ticks
    d,            \* the loop variable of main, in clock ticks
    pc,           \* "loop": at the loop head; "print": before the print loop; "done"
    globalStats,  \* the map of aggregates
    printed,      \* the lines written by the print loop, in order
    fetched,      \* history: the date labels passed to fetchCurrencyRates
    days          \* history: the documents passed to analyzeData, in order

vars == <<startDate, d, pc, globalStats, printed, fetched, days>>

\* t.AddDate(0, 0, n)
AddDate(t, n) == t + n * TicksPerDay

\* d.Format("02/01/2006"): day, month and year, the time of day is dropped
Format(t) == t \div TicksPerDay

\* the reading of time.Now() when main starts: some time after midnight
StartClock == {100 * TicksPerDay + 1}

\* time.Now() of the run's first reading
FirstNow == AddDate(startDate, WindowDays)

\* the later readings of time.Now() (line 280): the clock has moved on, by
\* at most MaxRunTicks
NowReadings == (FirstNow + 1)..(FirstNow + MaxRunTicks)

\* the feed has a document for the day d
FeedUp == d >= AddDate(FirstNow, 1 - FeedDays)

RECURSIVE Flat(_)
\* the records of the documents ds, in fold order, each with its document's date
Flat(ds) ==
    IF ds = <<>> THEN <<>>
    ELSE [i \in 1..Len(ds[1].Valutes) |-> [valute |-> ds[1].Valutes[i], date |-> ds[1].Date]]
         \o Flat(Tail(ds))

\* the records passed to analyzeData so far, in fold order
History == Flat(days)

\* their number
Folded == Len(History)

Init ==
    /\ startDate \in {AddDate(t, -WindowDays) : t \in StartClock}
    /\ d = startDate
    /\ pc = "loop"
    /\ globalStats = EmptyStats
    /\ printed = <<>>
    /\ fetched = <<>>
    /\ days = <<>>

\* lines 284-288: fetchCurrencyRates returns an error, the day is skipped
MainFetchErrorFatal ==
    /\ pc = "loop"
    /\ \E now \in NowReadings : d < now
    /\ fetched' = Append(fetched, Format(d))
    /\ pc' = "done"
    /\ UNCHANGED <<startDate, d, globalStats, printed, days>>
MainFetchError ==
    /\ pc = "loop"
    /\ \E now \in NowReadings : d < now
    /\ fetched' = Append(fetched, Format(d))
    /\ d' = AddDate(d, 1)
    /\ UNCHANGED <<startDate, pc, globalStats, printed, days>>

\* lines 290-294: parseXML returns an error, the day is skipped
MainParseError ==
    /\ pc = "loop"
    /\ \E now \in NowReadings : d < now
    /\ fetched' = Append(fetched, Format(d))
    /\ d' = AddDate(d, 1)
    /\ UNCHANGED <<startDate, pc, globalStats, printed, days>>

\* lines 284-297: the day's document valCurs is fetched, parsed and folded
MainAnalyze(valCurs) ==
    /\ pc = "loop"
    /\ \E now \in NowReadings : d < now
    /\ FeedUp
    /\ fetched' = Append(fetched, Format(d))
    /\ globalStats' = analyzeData(globalStats, valCurs)
    /\ days' = Append(days, valCurs)
    /\ d' = AddDate(d, 1)
    /\ UNCHANGED <<startDate, pc, printed>>

\* line 280: the loop condition is false
MainLoopExit ==
    /\ pc = "loop"
    /\ \E now \in NowReadings : ~(d < now)
    /\ pc' = "print"
    /\ UNCHANGED <<startDate, d, globalStats, printed, fetched, days>>

Orders(S) == {s \in [1..Cardinality(S) -> S] : \A i, j \in 1..Cardinality(S) : s[i] = s[j] => i = j}

\* line 301
AverageOfInt(stats) == IF stats.TotalValue.k = "fin"
                       THEN Fin(stats.TotalValue.n \div (stats.TotalValue.den * stats.Count), 1)
                       ELSE FDiv(stats.TotalValue, stats.Count)
AverageOf(stats) == FDiv(stats.TotalValue, stats.Count)

\* lines 300-304: the print loop, over the map in an order the runtime picks
MainPrint ==
    /\ pc = "print"
    /\ \E order \in Orders(DOMAIN globalStats) :
          /\ globalStats' = [c \in DOMAIN globalStats |->
                                [globalStats[c] EXCEPT !.Average = AverageOf(globalStats[c])]]
          /\ printed' = [i \in 1..Len(order) |-> globalStats'[order[i]]]
    /\ pc' = "done"
    /\ UNCHANGED <<startDate, d, fetched, days>>

Next ==
    \/ MainFetchError
    \/ MainParseError
    \/ \E valCurs \in ValCursSet(Valutes, Format(d), MaxRecords - Folded) : MainAnalyze(valCurs)
    \/ MainLoopExit
    \/ MainPrint

Spec == Init /\ [][Next]_vars

\* the Valute elements of the runs whose end is checked: a numeric and a
\* non-numeric rate text of one currency, a numeric one of the other
LiveValutes == {MkValute("USD", <<"1">>), MkValute("USD", <<"x">>), MkValute("EUR", <<"1">>)}

NextLive ==
    \/ MainFetchError
    \/ MainParseError
    \/ \E valCurs \in ValCursSet(LiveValutes, Format(d), MaxRecords - Folded) : MainAnalyze(valCurs)
    \/ MainLoopExit
    \/ MainPrint

\* the program runs on: it never stops before its last statement
LiveSpec == Init /\ [][NextLive]_vars /\ WF_vars(NextLive)


\* ------------------------------------------------------ history operators
\* the outcome of the conversion of each Valute the feed can send
Converted == [valute \in Valutes |-> ValueOf(valute)]

IsNumeric(rec) == Converted[rec.valute].ok
HasCode(rec, c) == rec.valute.CharCode = c
Val(rec) == Converted[rec.valute].value

\* the records of currency c, in fold order
RecordsOf(recs, c) == SelectSeq(recs, LAMBDA rec : HasCode(rec, c))

\* the numerically parseable records of currency c, in fold order
NumericOf(recs, c) == SelectSeq(recs, LAMBDA rec : HasCode(rec, c) /\ IsNumeric(rec))

RECURSIVE SumFrom(_, _, _)
SumFrom(recs, i, acc) ==
    IF i > Len(recs) THEN acc ELSE SumFrom(recs, i + 1, FAdd(acc, Val(recs[i])))

\* the sum of the values of a non-empty sequence of numeric records
SumOf(recs) == SumFrom(recs, 2, Val(recs[1]))

\* the least index of a record of recs with the value v
FirstWith(recs, v) ==
    CHOOSE i \in 1..Len(recs) :
        /\ Val(recs[i]) = v
        /\ \A j \in 1..(i - 1) : Val(recs[j]) # v

RECURSIVE TableOfRecs(_, _)
\* the table after folding the dated records recs, one by one, into table
TableOfRecs(table, recs) ==
    IF recs = <<>> THEN table
    ELSE TableOfRecs(FoldValute(table, recs[1].valute, recs[1].date), Tail(recs))

RECURSIVE TableOfDays(_, _)
\* the table after calling analyzeData on each document of ds in turn
TableOfDays(table, ds) ==
    IF ds = <<>> THEN table
    ELSE TableOfDays(analyzeData(table, ds[1]), Tail(ds))

RECURSIVE Interleavings(_)
\* every sequence that merges the sequences per[c], keeping each one's order
Interleavings(per) ==
    LET live == {c \in DOMAIN per : per[c] # <<>>}
    IN  IF live = {} THEN {<<>>}
        ELSE UNION {{<<per[c][1]>> \o s :
                        s \in Interleavings([per EXCEPT ![c] = Tail(per[c])])} : c \in live}

NoAverage(stats) == [stats EXCEPT !.Average = Zero]


\* ------------------------------------------------------------------ claims

\* C1: for every currency with an aggregate, Count is the number of folded
\* records of that currency whose rate text parsed, and TotalValue is the sum
\* of exactly those records' values; unparseable records count for nothing.
C1_CountAndSum ==
    \A c \in DOMAIN globalStats :
        LET rs == NumericOf(History, c)
        IN  /\ rs # <<>>
            /\ globalStats[c].Count = Len(rs)
            /\ globalStats[c].TotalValue = SumOf(rs)

C1_Witness ==
    /\ "USD" \in DOMAIN globalStats
    /\ globalStats["USD"].Count = 2
    /\ globalStats["USD"].TotalValue = Fin(7, 2)
    /\ Len(RecordsOf(History, "USD")) = 3

\* C2: for every currency with an aggregate, MinValue <= v <= MaxValue for
\* every value v folded for it so far, and MinValue and MaxValue are
\* themselves values folded for it.
C2_MinMaxBound ==
    \A c \in DOMAIN globalStats :
        LET rs == NumericOf(History, c)
        IN  /\ \A i \in 1..Len(rs) :
                  /\ FLeq(globalStats[c].MinValue, Val(rs[i]))
                  /\ FLeq(Val(rs[i]), globalStats[c].MaxValue)
            /\ \E i \in 1..Len(rs) : Val(rs[i]) = globalStats[c].MinValue
            /\ \E i \in 1..Len(rs) : Val(rs[i]) = globalStats[c].MaxValue

\* C3: a call of analyzeData leaves the aggregate of every currency that has
\* no numeric record in the document as it was (absent stays absent), so a
\* document of non-numeric records only changes nothing, and every numeric
\* record of the document, also one after a non-numeric record, is counted.
C3_SkipOnlyTheRecord ==
    [][ days' # days =>
          LET recs == Flat(<<days'[Len(days')]>>)
          IN  \A c \in Codes :
                LET n == Len(NumericOf(recs, c))
                    before == IF c \in DOMAIN globalStats THEN globalStats[c].Count ELSE 0
                IN  IF n = 0
                    THEN /\ (c \in DOMAIN globalStats') = (c \in DOMAIN globalStats)
                         /\ c \in DOMAIN globalStats => globalStats'[c] = globalStats[c]
                    ELSE /\ c \in DOMAIN globalStats'
                         /\ globalStats'[c].Count = before + n
      ]_vars

C3_Witness ==
    /\ Len(days) = 2
    /\ Len(days[1].Valutes) = 2
    /\ ~ValueOf(days[1].Valutes[1]).ok
    /\ days[1].Valutes[1].CharCode = "USD"
    /\ days[1].Valutes[2].CharCode = "EUR"
    /\ days[2].Valutes = <<MkValute("USD", <<"1">>)>>
    /\ DOMAIN globalStats = {"USD", "EUR"}
    /\ globalStats["USD"].Count = 1

\* C4: for every currency with an aggregate, MaxDate is the date of the
\* first-folded record whose value is MaxValue and MinDate the date of the
\* first-folded record whose value is MinValue.
C4_FirstOccurrenceWins ==
    \A c \in DOMAIN globalStats :
        LET rs == NumericOf(History, c)
            st == globalStats[c]
        IN  /\ \E i \in 1..Len(rs) : Val(rs[i]) = st.MaxValue
            /\ \E i \in 1..Len(rs) : Val(rs[i]) = st.MinValue
            /\ st.MaxDate = rs[FirstWith(rs, st.MaxValue)].date
            /\ st.MinDate = rs[FirstWith(rs, st.MinValue)].date

C4_Witness ==
    /\ "USD" \in DOMAIN globalStats
    /\ LET rs == NumericOf(History, "USD")
       IN  /\ Len(rs) = 2
           /\ Val(rs[1]) = Val(rs[2])
           /\ rs[1].date # rs[2].date
           /\ globalStats["USD"].MaxDate = rs[1].date
           /\ globalStats["USD"].MinDate = rs[1].date

\* C5: an aggregate exists for a currency exactly when a numerically
\* parseable record of it has been folded, and after the first such record,
\* of value v and date d, it has MinValue = MaxValue = TotalValue = v,
\* MinDate = MaxDate = d and Count = 1.
C5_LazyCreation ==
    \A c \in Codes :
        LET rs == NumericOf(History, c)
        IN  /\ (c \in DOMAIN globalStats) = (rs # <<>>)
            /\ Len(rs) = 1 =>
                  /\ globalStats[c].MinValue = Val(rs[1])
                  /\ globalStats[c].MaxValue = Val(rs[1])
                  /\ globalStats[c].TotalValue = Val(rs[1])
                  /\ globalStats[c].MinDate = rs[1].date
                  /\ globalStats[c].MaxDate = rs[1].date
                  /\ globalStats[c].Count = 1

C5_Witness ==
    /\ DOMAIN globalStats = {"EUR"}
    /\ globalStats["EUR"].Count = 1
    /\ globalStats["EUR"].MaxDate = days[1].Date
    /\ Len(RecordsOf(History, "USD")) = 1

\* C6: every sequence that holds the folded records with each currency's
\* records in their order, however the currencies are interleaved, folds to
\* the same aggregate table.
C6_KeysCommute ==
    pc = "loop" =>
        \A h \in Interleavings([c \in Codes |-> RecordsOf(History, c)]) :
            TableOfRecs(EmptyStats, h) = globalStats

C6_Witness ==
    /\ pc = "loop"
    /\ Len(History) = 3
    /\ History[1].valute.CharCode = "USD"
    /\ History[2].valute.CharCode = "EUR"
    /\ History[3].valute.CharCode = "USD"
    /\ History[1].date # History[3].date
    /\ DOMAIN globalStats = {"USD", "EUR"}

\* C7: in whatever order the documents of the run are passed to analyzeData,
\* every currency ends with the same MinValue, MaxValue, TotalValue and Count.
C7_DaysCommute ==
    pc = "loop" =>
        \A order \in Orders(1..Len(days)) :
            LET t == TableOfDays(EmptyStats, [i \in 1..Len(days) |-> days[order[i]]])
            IN  /\ DOMAIN t = DOMAIN globalStats
                /\ \A c \in DOMAIN t :
                      /\ t[c].MinValue = globalStats[c].MinValue
                      /\ t[c].MaxValue = globalStats[c].MaxValue
                      /\ t[c].TotalValue = globalStats[c].TotalValue
                      /\ t[c].Count = globalStats[c].Count

\* C8: every aggregate has Count >= 1, and when the print loop is over each
\* aggregate's Average is the sum of the values folded for its currency
\* divided by their number.
C8_Average ==
    \A c \in DOMAIN globalStats :
        /\ globalStats[c].Count >= 1
        /\ pc = "done" =>
              LET rs == NumericOf(History, c)
              IN  /\ rs # <<>>
                  /\ globalStats[c].Average = FDiv(SumOf(rs), Len(rs))

C8_Witness ==
    /\ pc = "done"
    /\ "USD" \in DOMAIN globalStats
    /\ globalStats["USD"].Count = 2
    /\ globalStats["USD"].Average = Fin(7, 4)

\* the print loop has written one line per aggregate, the aggregates are
\* those of the documents that arrived, and without a document there is no
\* aggregate and no line
PrintedAll ==
    /\ Len(printed) = Cardinality(DOMAIN globalStats)
    /\ {printed[i] : i \in 1..Len(printed)} = {globalStats[c] : c \in DOMAIN globalStats}
    /\ [c \in DOMAIN globalStats |-> NoAverage(globalStats[c])] = TableOfDays(EmptyStats, days)
    /\ days = <<>> => globalStats = EmptyStats /\ printed = <<>>

\* C9: whatever the outcome of each day, the run reaches the end of the
\* print loop; a day that fails is skipped (the table is untouched and the
\* loop goes on with the next day), the aggregates of the days that arrived
\* are printed, and when every day failed nothing is printed.
C9_AlwaysCompletes ==
    /\ <>(pc = "done")
    /\ [](pc = "done" => PrintedAll)
    /\ [][ fetched' # fetched /\ days' = days =>
             /\ pc' = "loop"
             /\ d' = AddDate(d, 1)
             /\ globalStats' = globalStats ]_vars

C9_Witness ==
    /\ pc = "done"
    /\ Len(days) = 1
    /\ Len(fetched) > Len(days)
    /\ Len(History) = 3
    /\ ~IsNumeric(History[1])
    /\ Len(printed) = 2

\* C10: the run calls the feed client exactly WindowDays times, for
\* consecutive days in chronological order, the last one the current date.
C10_NinetyFetches ==
    pc = "done" =>
        /\ Len(fetched) = WindowDays
        /\ \A i \in 1..(Len(fetched) - 1) : fetched[i + 1] = fetched[i] + 1
        /\ fetched[Len(fetched)] = Format(FirstNow)

====
